---- MODULE Spec2Model ----
(***************************************************************************)
(* A model of the webb.js core slice:                                      *)
(*   - fetchRPCTreeLeaves   (paginated retrieval of merkle tree leaves)    *)
(*   - polkadotTx           (extrinsic submission, dispatch-error decode)  *)
(*   - ProvingManagerWrapper (the proof worker's message handler)          *)
(* Each component has its own next-state relation and specification; the   *)
(* components share no state.                                              *)
(***************************************************************************)
EXTENDS Integers, Sequences, FiniteSets, TLC

VARIABLES
  \* ---- on-chain tree and fetchRPCTreeLeaves ----
  treeLen,      \* number of leaves of the on-chain (append-only) tree
  appends,      \* number of times the tree has grown
  fpc,          \* position of the caller: "idle", "awaitPage", "returned", "threw"
  from,         \* local `from`
  to,           \* local `to`
  done,         \* local `done`
  leaves,       \* local `leaves`
  requests,     \* page requests issued by the current call, in order
  result,       \* value the current call's promise resolved with, or NoResult
  calls,        \* number of calls started
  callTreeLen,  \* tree length when the current call started
  prevResult,   \* `result` of the previous call
  prevRequests, \* `requests` of the previous call
  prevTreeLen,  \* tree length when the previous call started
  \* ---- polkadotTx ----
  txpc,         \* "idle", "submitting", "subscribed", "sendFailed", "closed"
  promise,      \* the promise polkadotTx returned: [state, value]
  callbackRegistered, \* the status callback is registered with the subscription
  submissions,  \* number of signAndSend calls made
  updates,      \* number of status updates the callback has run for
  inspectedAny, \* the callback's loop has looked at an event
  successSeen,  \* a system ExtrinsicSuccess came with an in-block/finalized status
  firstDecisive,\* first system ExtrinsicSuccess/ExtrinsicFailed event that came
                \* with an in-block/finalized status, in arrival and array order
  lastStatus,   \* status of the last update delivered
  lastDecisive, \* the last update held a system ExtrinsicSuccess/ExtrinsicFailed
  updatesAfterSettle, \* updates the callback ran for with the promise settled
  ignoredKinds, \* why an update so far held a success/failure event that does not
                \* count: "status" (not in-block/finalized), "module" (not system)
  \* ---- ProvingManagerWrapper (the proof worker) ----
  terminated,   \* the worker has been terminated
  sent,         \* messages posted to the worker, in order; a message's id is
                \* its position
  delivered,    \* number of messages the listener has been invoked for
  hpc,          \* per message: position of its listener invocation
  outbox,       \* envelopes the worker has posted back, in order
  answered,     \* per message: number of envelopes posted for it
  abandoned,    \* proof requests that were outstanding when the worker terminated
  serialised,   \* the owner posted each proof request after the response to the one before
  \* ---- relayed submission (RelaySession) ----
  rstate,       \* "Idle", "Connecting", "Connected", "Finalized", "Errored"
  rvalue,       \* txHash of a Finalized session, reason of an Errored one
  resolutions,  \* terminal resolutions delivered to the consumer, in order
  rlog,         \* inbound relayer messages of the job, in arrival order
  \* ---- transferBalance ----
  bpc,          \* "idle", "awaiting", "returned", "threw"
  receiverPairs,\* the receivers the call was given, in order
  transfers,    \* the polkadotTx calls made so far: [to, outcome, reason]
  breason       \* what transferBalance rejected with

fetchVars == << treeLen, appends, fpc, from, to, done, leaves, requests, result,
                calls, callTreeLen, prevResult, prevRequests, prevTreeLen >>

txVars == << txpc, promise, callbackRegistered, submissions, updates, inspectedAny,
            successSeen, firstDecisive, lastStatus, lastDecisive, updatesAfterSettle,
            ignoredKinds >>

workerVars == << terminated, sent, delivered, hpc, outbox, answered, abandoned,
                serialised >>

relayVars == << rstate, rvalue, resolutions, rlog >>

transferVars == << bpc, receiverPairs, transfers, breason >>

vars == << fetchVars, txVars, workerVars, relayVars, transferVars >>

-----------------------------------------------------------------------------
(* Bounds *)
MaxLeaves  == 1030   \* largest tree
MaxCalls   == 2      \* calls of fetchRPCTreeLeaves in one behaviour
MaxAppends == 1      \* times the tree grows in one behaviour
MaxUpdates == 3      \* status updates delivered to one polkadotTx call
MaxEvents  == 2      \* events carried by one status update
MaxMsgs    == 3      \* messages posted to one worker
MaxInbound == 4      \* inbound relayer messages of one job
MaxReceivers == 2    \* receivers handed to one transferBalance call

(* Program constants *)
PageSize == 511

NoResult == << "none" >>

Min(a, b) == IF a < b THEN a ELSE b

-----------------------------------------------------------------------------
(* The on-chain tree.  A leaf is an opaque byte string identified by its   *)
(* position; the tree is append-only, so its content is fixed by its       *)
(* length.  LeafAt(i) is the raw bytes of the leaf of index i.             *)
LeafAt(i) == << "leaf", i >>

(* What the node's codec hands back for one leaf, and its toU8a(). *)
Codec(bytes) == [ codec |-> "Bytes", raw |-> bytes ]
toU8a(item) == item.raw

(* api.rpc.mt.getLeaves(treeId, from, to): the leaves at the indices        *)
(* [f, t) of a tree of n leaves, in index order.                            *)
getLeaves(n, f, t) ==
  [ k \in 1 .. (IF Min(t, n) > f THEN Min(t, n) - f ELSE 0) |-> Codec(LeafAt(f + k - 1)) ]

(* leaves.push(...treeLeaves.map((i) => i.toU8a())) *)
PushMapped(acc, page) == acc \o [ k \in 1 .. Len(page) |-> toU8a(page[k]) ]

(* One logged page request: the window, its state ("pending", "failed" or *)
(* "answered") and the length of the page it was answered with.            *)
Request(f, t, st, got) == [ from |-> f, to |-> t, state |-> st, got |-> got ]

SetLast(s, st, got) == [ s EXCEPT ![Len(s)].state = st, ![Len(s)].got = got ]

-----------------------------------------------------------------------------
(* The caller has not called fetchRPCTreeLeaves yet; the tree has one of   *)
(* the given sizes.                                                        *)
InitFetch(sizes) ==
  /\ treeLen \in sizes
  /\ appends = 0
  /\ fpc = "idle"
  /\ from = 0
  /\ to = 0
  /\ done = FALSE
  /\ leaves = << >>
  /\ requests = << >>
  /\ result = NoResult
  /\ calls = 0
  /\ callTreeLen = treeLen
  /\ prevResult = NoResult
  /\ prevRequests = << >>
  /\ prevTreeLen = treeLen

(* A plausible slip: a call takes up where the call before it stopped. *)
ResumeFrom == from

(* Index the first page request of a call starts from. *)
FirstFrom == 0

(* A plausible slip: the window grows by one more than the page size. *)
AdvancePastPage(t) == t + PageSize + 1

(* to = to + 511 *)
Advance(t) == t + PageSize

(* fetchRPCTreeLeaves is called: the locals are initialised and the loop    *)
(* runs up to its first await, the request for [0, 511).                    *)
FetchCall ==
  /\ fpc \in { "idle", "returned", "threw" }
  /\ calls < MaxCalls
  /\ calls' = calls + 1
  /\ prevResult' = result
  /\ prevRequests' = requests
  /\ prevTreeLen' = callTreeLen
  /\ callTreeLen' = treeLen
  /\ done' = FALSE
  /\ from' = FirstFrom
  /\ to' = PageSize
  /\ leaves' = << >>
  /\ result' = NoResult
  /\ requests' = << Request(FirstFrom, PageSize, "pending", 0) >>
  /\ fpc' = "awaitPage"
  /\ UNCHANGED << treeLen, appends >>
  /\ UNCHANGED << txVars, workerVars, relayVars, transferVars >>

(* A plausible slip: taking a page shorter than the page size for the end. *)
IsShortPage(page) == Len(page) < PageSize

(* Does the loop stop on this page? *)
IsLastPage(page) == Len(page) = 0

(* The awaited page arrives: either the loop ends and the function returns, *)
(* or the page is appended, the window advances and the next request is     *)
(* issued.                                                                  *)
FetchPage ==
  /\ fpc = "awaitPage"
  /\ LET treeLeaves == getLeaves(treeLen, from, to) IN
       IF IsLastPage(treeLeaves)
       THEN /\ done' = TRUE
            /\ requests' = SetLast(requests, "answered", Len(treeLeaves))
            /\ result' = leaves
            /\ fpc' = "returned"
            /\ UNCHANGED << from, to, leaves >>
       ELSE /\ leaves' = PushMapped(leaves, treeLeaves)
            /\ from' = to
            /\ to' = Advance(to)
            /\ requests' = Append(SetLast(requests, "answered", Len(treeLeaves)),
                                  Request(to, Advance(to), "pending", 0))
            /\ fpc' = "awaitPage"
            /\ UNCHANGED << done, result >>
  /\ UNCHANGED << treeLen, appends, calls, callTreeLen, prevResult, prevRequests,
                  prevTreeLen >>
  /\ UNCHANGED << txVars, workerVars, relayVars, transferVars >>

(* A plausible slip: a failed request is caught and asked for again. *)
RetryOnPageFailure ==
  /\ fpc' = "awaitPage"
  /\ requests' = Append(SetLast(requests, "failed", 0), Request(from, to, "pending", 0))
  /\ UNCHANGED << from, to, done, leaves, result >>

(* What the function does when the awaited request rejects: the await       *)
(* throws, nothing catches it, the async function rejects.                  *)
OnPageFailure ==
  /\ fpc' = "threw"
  /\ requests' = SetLast(requests, "failed", 0)
  /\ UNCHANGED << from, to, done, leaves, result >>

FetchPageFails ==
  /\ fpc = "awaitPage"
  /\ OnPageFailure
  /\ UNCHANGED << treeLen, appends, calls, callTreeLen, prevResult, prevRequests,
                  prevTreeLen >>
  /\ UNCHANGED << txVars, workerVars, relayVars, transferVars >>

(* Leaves are appended on chain (the tree is append-only). *)
AppendSizes == { 1, PageSize }

AppendLeaves ==
  /\ appends < MaxAppends
  /\ \E k \in AppendSizes :
       /\ treeLen + k <= MaxLeaves
       /\ treeLen' = treeLen + k
  /\ appends' = appends + 1
  /\ UNCHANGED << fpc, from, to, done, leaves, requests, result, calls, callTreeLen,
                  prevResult, prevRequests, prevTreeLen >>
  /\ UNCHANGED << txVars, workerVars, relayVars, transferVars >>

(* The tree does not change while it is fetched. *)
NextFetch == FetchCall \/ FetchPage \/ FetchPageFails

(* The tree may grow at any time. *)
NextFetchGrow == NextFetch \/ AppendLeaves


-----------------------------------------------------------------------------
(* polkadotTx *)

(* tx.hash.toString() *)
TxHash == "0xabc"

(* What signAndSend rejects with when the submission fails in transport. *)
TransportError == "RpcError: 1010: Invalid Transaction"

(* Dispatch errors.  `type` is the raw type tag; a module error carries the  *)
(* module's (index, error) pair, a token error its subtype.                  *)
DispatchError(type, isModule, isToken, asModule, asToken) ==
  [ type |-> type, isModule |-> isModule, isToken |-> isToken,
    asModule |-> asModule, asToken |-> asToken ]

NoError == DispatchError("none", FALSE, FALSE, << 0, 0 >>, "none")

DispatchErrors ==
  { DispatchError("Module", TRUE, FALSE, << 6, 2 >>, "none"),
    DispatchError("Module", TRUE, FALSE, << 99, 0 >>, "none"),
    DispatchError("Token", FALSE, TRUE, << 0, 0 >>, "Frozen"),
    DispatchError("BadOrigin", FALSE, FALSE, << 0, 0 >>, "none") }

(* The chain metadata registry: the module errors it knows. *)
Registry == [ m \in { << 6, 2 >> } |-> [ section |-> "Balances", name |-> "InsufficientBalance" ] ]

(* dispatchError.registry.findMetaError(mod) throws for an unknown pair. *)
findMetaErrorThrows(mod) == mod \notin DOMAIN Registry
findMetaError(mod) == Registry[mod]

(* One event record of a status update. *)
Event(section, method, err) == [ section |-> section, method |-> method, err |-> err ]

NoEvent == Event("none", "none", NoError)

Events ==
  { Event("system", "ExtrinsicSuccess", NoError),
    Event("system", "NewAccount", NoError),
    Event("balances", "Transfer", NoError),
    Event("balances", "ExtrinsicSuccess", NoError),
    Event("utility", "ExtrinsicFailed", DispatchError("Token", FALSE, TRUE, << 0, 0 >>, "Frozen")) }
  \cup { Event("system", "ExtrinsicFailed", e) : e \in DispatchErrors }

Statuses == { "ready", "broadcast", "inBlock", "finalized", "invalid" }

SeqsUpTo(S, n) == UNION { [ 1 .. k -> S ] : k \in 0 .. n }

(* status.isInBlock || status.isFinalized *)
IsIncluded(status) == status \in { "inBlock", "finalized" }

(* A plausible slip: the events of every module are inspected. *)
AllEvents(events) == events

(* result.events.filter(({ event: { section } }) => section === 'system') *)
SystemEvents(events) == SelectSeq(events, LAMBDA e : e.section = "system")

(* A plausible slip: the token branch is left out of the decoding. *)
FailedMessageNoToken(dispatchError) ==
  IF dispatchError.isModule /\ ~findMetaErrorThrows(dispatchError.asModule)
  THEN findMetaError(dispatchError.asModule).section \o "."
         \o findMetaError(dispatchError.asModule).name
  ELSE dispatchError.type

(* The value of `message` when the final reject(message) is reached. *)
FailedMessage(dispatchError) ==
  IF dispatchError.isModule
  THEN IF findMetaErrorThrows(dispatchError.asModule)
       THEN dispatchError.type
       ELSE findMetaError(dispatchError.asModule).section \o "."
              \o findMetaError(dispatchError.asModule).name
  ELSE IF dispatchError.isToken
       THEN dispatchError.type \o "." \o dispatchError.asToken
       ELSE dispatchError.type

Call(kind, value) == [ kind |-> kind, value |-> value ]

(* A plausible slip: the catch block rejects with the error it caught. *)
RejectCaughtError(dispatchError) == Call("reject", "Error: findMetaError: unknown module error")

(* catch (error) { reject(message) }: message still holds the raw type tag. *)
OnLookupFailure(dispatchError) == Call("reject", dispatchError.type)

(* The resolve/reject calls the loop body makes for one event, in order.    *)
(* When the registry lookup throws, the catch block rejects and the final   *)
(* reject(message) runs as well.                                            *)
EventCalls(event) ==
  IF event.method = "ExtrinsicFailed"
  THEN IF event.err.isModule /\ findMetaErrorThrows(event.err.asModule)
       THEN << OnLookupFailure(event.err), Call("reject", FailedMessage(event.err)) >>
       ELSE << Call("reject", FailedMessage(event.err)) >>
  ELSE IF event.method = "ExtrinsicSuccess"
       THEN << Call("resolve", TxHash) >>
       ELSE << >>

(* The calls of the whole for loop: the loop has no break or return. *)
RECURSIVE LoopCalls(_)
LoopCalls(events) ==
  IF events = << >> THEN << >>
  ELSE EventCalls(Head(events)) \o LoopCalls(Tail(events))

(* The calls one run of the status callback makes. *)
CallbackCalls(status, events) ==
  IF IsIncluded(status) THEN LoopCalls(SystemEvents(events)) ELSE << >>

(* A promise settles on the first resolve/reject call and ignores the rest. *)
Pending == [ state |-> "pending", value |-> "" ]

(* A plausible slip: a later resolve/reject call replaces the outcome. *)
SettleOverwrite(p, call) ==
  [ state |-> IF call.kind = "resolve" THEN "resolved" ELSE "rejected",
    value |-> call.value ]

Settle(p, call) ==
  IF p.state = "pending"
  THEN [ state |-> IF call.kind = "resolve" THEN "resolved" ELSE "rejected",
         value |-> call.value ]
  ELSE p

RECURSIVE SettleAll(_, _)
SettleAll(p, cs) ==
  IF cs = << >> THEN p ELSE SettleAll(Settle(p, Head(cs)), Tail(cs))

(* What the record of inputs keeps of one update. *)
IsDecisive(e) == e.section = "system" /\ e.method \in { "ExtrinsicSuccess", "ExtrinsicFailed" }

DecisiveIndexes(events) == { k \in 1 .. Len(events) : IsDecisive(events[k]) }

(* Events with the method name of a success/failure event, of another module. *)
ForeignIndexes(events) ==
  { k \in 1 .. Len(events) :
      /\ events[k].section # "system"
      /\ events[k].method \in { "ExtrinsicSuccess", "ExtrinsicFailed" } }

FirstDecisiveOf(events) ==
  IF DecisiveIndexes(events) = { } THEN NoEvent
  ELSE events[CHOOSE k \in DecisiveIndexes(events) : \A j \in DecisiveIndexes(events) : k <= j]

InitTx ==
  /\ txpc = "idle"
  /\ promise = Pending
  /\ callbackRegistered = FALSE
  /\ submissions = 0
  /\ updates = 0
  /\ inspectedAny = FALSE
  /\ successSeen = FALSE
  /\ firstDecisive = NoEvent
  /\ lastStatus = "none"
  /\ lastDecisive = FALSE
  /\ updatesAfterSettle = 0
  /\ ignoredKinds = { }

(* polkadotTx is called: the extrinsic is built, the promise is created and *)
(* tx.signAndSend(signer, callback) is called.                              *)
TxCall ==
  /\ txpc = "idle"
  /\ txpc' = "submitting"
  /\ submissions' = submissions + 1
  /\ UNCHANGED << promise, callbackRegistered, updates, inspectedAny, successSeen,
                  firstDecisive, lastStatus, lastDecisive, updatesAfterSettle,
                  ignoredKinds >>
  /\ UNCHANGED << fetchVars, workerVars, relayVars, transferVars >>

(* The node accepts the extrinsic: the callback is subscribed to its status. *)
(* The unsubscribe function signAndSend resolves with is dropped.           *)
TxSubscribed ==
  /\ txpc = "submitting"
  /\ txpc' = "subscribed"
  /\ callbackRegistered' = TRUE
  /\ UNCHANGED << promise, submissions, updates, inspectedAny, successSeen,
                  firstDecisive, lastStatus, lastDecisive, updatesAfterSettle,
                  ignoredKinds >>
  /\ UNCHANGED << fetchVars, workerVars, relayVars, transferVars >>

(* A plausible slip: the failure is caught and dropped. *)
SwallowSendFailure ==
  /\ txpc' = "sendFailed"
  /\ UNCHANGED << promise, submissions >>

(* .catch((e) => reject(e)) *)
OnSendFailure ==
  /\ txpc' = "sendFailed"
  /\ promise' = Settle(promise, Call("reject", TransportError))
  /\ UNCHANGED submissions

(* signAndSend rejects: the submission failed in transport. *)
TxSendFails ==
  /\ txpc = "submitting"
  /\ OnSendFailure
  /\ UNCHANGED << callbackRegistered, updates, inspectedAny, successSeen,
                  firstDecisive, lastStatus, lastDecisive, updatesAfterSettle,
                  ignoredKinds >>
  /\ UNCHANGED << fetchVars, workerVars, relayVars, transferVars >>

(* The callback runs for one status update with the given status and events. *)
StatusUpdate(status, events) ==
  /\ txpc = "subscribed"
  /\ callbackRegistered
  /\ updates < MaxUpdates
  /\ promise' = SettleAll(promise, CallbackCalls(status, events))
  /\ inspectedAny' = (inspectedAny \/ (IsIncluded(status) /\ SystemEvents(events) # << >>))
  /\ successSeen' = (successSeen \/
       (IsIncluded(status) /\ \E k \in 1 .. Len(events) :
          events[k] = Event("system", "ExtrinsicSuccess", NoError)))
  /\ firstDecisive' = IF firstDecisive = NoEvent /\ IsIncluded(status)
                      THEN FirstDecisiveOf(events) ELSE firstDecisive
  /\ lastStatus' = status
  /\ lastDecisive' = (DecisiveIndexes(events) # { })
  /\ ignoredKinds' = ignoredKinds
       \cup (IF ~IsIncluded(status) /\ DecisiveIndexes(events) # { }
             THEN { "status" } ELSE { })
       \cup (IF IsIncluded(status) /\ DecisiveIndexes(events) = { }
                /\ ForeignIndexes(events) # { }
             THEN { "module" } ELSE { })
  /\ updates' = updates + 1
  /\ updatesAfterSettle' = updatesAfterSettle + (IF promise.state # "pending" THEN 1 ELSE 0)
  /\ UNCHANGED << txpc, callbackRegistered, submissions >>
  /\ UNCHANGED << fetchVars, workerVars, relayVars, transferVars >>

(* The node delivers a status update to the callback. *)
TxStatusUpdate ==
  \E status \in Statuses, events \in SeqsUpTo(Events, MaxEvents) :
    StatusUpdate(status, events)

(* The node ends the status stream: no further update is delivered. *)
TxStreamEnds ==
  /\ txpc = "subscribed"
  /\ txpc' = "closed"
  /\ UNCHANGED << promise, callbackRegistered, submissions, updates, inspectedAny,
                  successSeen, firstDecisive, lastStatus, lastDecisive, updatesAfterSettle,
                  ignoredKinds >>
  /\ UNCHANGED << fetchVars, workerVars, relayVars, transferVars >>

NextTx == TxCall \/ TxSubscribed \/ TxSendFails \/ TxStatusUpdate \/ TxStreamEnds

-----------------------------------------------------------------------------
(* ProvingManagerWrapper: the worker's message listener *)

(* A message posted to the worker: its keys in order, and what the proof    *)
(* input it carries leads to ("valid": a proof; "badNote": Note.deserialize *)
(* rejects; "unprovable": generate_proof_js throws; "none": no input).      *)
Message(keys, input) == [ keys |-> keys, input |-> input ]

Messages ==
  { Message(<< "proof" >>, i) : i \in { "valid", "badNote", "unprovable" } }
  \cup { Message(<< "destroy" >>, "none"),
         Message(<< "ping" >>, "none"),
         Message(<< >>, "none"),
         Message(<< "proof", "destroy" >>, "valid"),
         Message(<< "destroy", "proof" >>, "valid") }

(* A plausible slip: the last key of the message decides. *)
LastKey(message) ==
  IF message.keys = << >> THEN "undefined" ELSE message.keys[Len(message.keys)]

(* Object.keys(message)[0] *)
FirstKey(message) == IF message.keys = << >> THEN "undefined" ELSE message.keys[1]

(* What generate_proof_js returns for a request, and what proof() keeps.    *)
WasmProof(id) ==
  [ proof |-> << "proof", id >>, root |-> << "root", id >>,
    nullifierHash |-> << "nullifierHash", id >>, leaf |-> << "leaf", id >> ]

ProofI(p) == [ proof |-> p.proof, root |-> p.root, nullifierHash |-> p.nullifierHash ]

(* postMessage({ name: key, data: proof }) *)
Envelope(key, data) == [ name |-> key, data |-> data ]

(* Listener invocations suspended at an await of proof(). *)
Awaiting == { "awaitBuilder", "awaitDeserialize", "awaitGenerate" }

Outstanding == { id \in 1 .. Len(hpc) : hpc[id] \in Awaiting }

InitWorker ==
  /\ terminated = FALSE
  /\ sent = << >>
  /\ delivered = 0
  /\ hpc = << >>
  /\ outbox = << >>
  /\ answered = << >>
  /\ abandoned = { }
  /\ serialised = TRUE

(* Every proof request posted so far has had its response posted. *)
EarlierAnswered ==
  \A id \in 1 .. Len(sent) : FirstKey(sent[id]) = "proof" => answered[id] >= 1

(* The owner of the worker posts a message to it. *)
WPost ==
  /\ Len(sent) < MaxMsgs
  /\ \E m \in Messages :
       /\ sent' = Append(sent, m)
       /\ serialised' = (serialised /\ (FirstKey(m) = "proof" => EarlierAnswered))
  /\ hpc' = Append(hpc, "queued")
  /\ answered' = Append(answered, 0)
  /\ UNCHANGED << terminated, delivered, outbox, abandoned >>
  /\ UNCHANGED << fetchVars, txVars, relayVars, transferVars >>

(* A plausible slip: "destroy" leaves the worker running. *)
KeepRunning == terminated' = terminated

(* (self as unknown as Worker).terminate(): taken to stop the worker, as   *)
(* Worker.terminate() does: no listener is invoked or resumed afterwards.   *)
Terminate == terminated' = TRUE

(* A plausible slip: the envelope is posted without awaiting proof(). *)
StartProofUnawaited(id) ==
  /\ hpc' = [ hpc EXCEPT ![id] = "awaitBuilder" ]
  /\ outbox' = Append(outbox, Envelope(FirstKey(sent[id]), ProofI(WasmProof(id))))
  /\ answered' = [ answered EXCEPT ![id] = @ + 1 ]

(* case "proof": `await this.proof(input)` suspends the listener at the     *)
(* first await of proof(); nothing is posted yet.                           *)
StartProof(id) ==
  /\ hpc' = [ hpc EXCEPT ![id] = "awaitBuilder" ]
  /\ UNCHANGED << outbox, answered >>

(* The listener is invoked for the next message and runs to its first       *)
(* await, or to its end.                                                    *)
WDeliver ==
  /\ ~terminated
  /\ delivered < Len(sent)
  /\ delivered' = delivered + 1
  /\ LET id == delivered + 1
         key == FirstKey(sent[id])
     IN  CASE key = "proof" ->
                /\ StartProof(id)
                /\ UNCHANGED << terminated, abandoned >>
           [] key = "destroy" ->
                /\ Terminate
                /\ hpc' = [ hpc EXCEPT ![id] = "destroyed" ]
                /\ abandoned' = Outstanding
                /\ UNCHANGED << outbox, answered >>
           [] OTHER ->
                /\ hpc' = [ hpc EXCEPT ![id] = "ignored" ]
                /\ UNCHANGED << terminated, abandoned, outbox, answered >>
  /\ UNCHANGED << sent, serialised >>
  /\ UNCHANGED << fetchVars, txVars, relayVars, transferVars >>

(* proof(): `await ProvingManagerWrapper.proofBuilder` resolves; the        *)
(* manager is created and Note.deserialize is awaited.                      *)
WBuilderLoaded ==
  /\ ~terminated
  /\ \E id \in 1 .. Len(hpc) :
       /\ hpc[id] = "awaitBuilder"
       /\ hpc' = [ hpc EXCEPT ![id] = "awaitDeserialize" ]
  /\ UNCHANGED << terminated, sent, delivered, outbox, answered, abandoned, serialised >>
  /\ UNCHANGED << fetchVars, txVars, relayVars, transferVars >>

(* proof(): Note.deserialize settles.  A rejection leaves proof() and the   *)
(* listener's promise rejected; otherwise the proof input is built and      *)
(* generateProof is awaited.                                                *)
WDeserialized ==
  /\ ~terminated
  /\ \E id \in 1 .. Len(hpc) :
       /\ hpc[id] = "awaitDeserialize"
       /\ hpc' = [ hpc EXCEPT ![id] =
                     IF sent[id].input = "badNote" THEN "threw" ELSE "awaitGenerate" ]
  /\ UNCHANGED << terminated, sent, delivered, outbox, answered, abandoned, serialised >>
  /\ UNCHANGED << fetchVars, txVars, relayVars, transferVars >>

(* proof(): generateProof settles.  A rejection leaves the listener's       *)
(* promise rejected; otherwise proof() returns and the listener posts the   *)
(* envelope.                                                                *)
WGenerated ==
  /\ ~terminated
  /\ \E id \in 1 .. Len(hpc) :
       /\ hpc[id] = "awaitGenerate"
       /\ IF sent[id].input = "unprovable"
          THEN /\ hpc' = [ hpc EXCEPT ![id] = "threw" ]
               /\ UNCHANGED << outbox, answered >>
          ELSE /\ hpc' = [ hpc EXCEPT ![id] = "posted" ]
               /\ outbox' = Append(outbox, Envelope(FirstKey(sent[id]), ProofI(WasmProof(id))))
               /\ answered' = [ answered EXCEPT ![id] = @ + 1 ]
  /\ UNCHANGED << terminated, sent, delivered, abandoned, serialised >>
  /\ UNCHANGED << fetchVars, txVars, relayVars, transferVars >>

NextWorker == WPost \/ WDeliver \/ WBuilderLoaded \/ WDeserialized \/ WGenerated

-----------------------------------------------------------------------------
(* Relayed submission.  The repository's sources here hold the message      *)
(* types only (RelayerMessage, Withdraw, Finalized, Errored); the session   *)
(* that consumes the messages follows section 4.4 of the specification.     *)

(* One inbound RelayerMessage: its populated key ("withdraw", "error" or    *)
(* "network"), for a withdraw the field of Withdraw that is set, and the    *)
(* string it carries (txHash, reason, error text or network status).        *)
RelayerMessage(key, field, text) == [ key |-> key, field |-> field, text |-> text ]

RelayerMessages ==
  { RelayerMessage("network", "none", t) : t \in { "connecting", "connected", "unknown" } }
  \cup { RelayerMessage("withdraw", "finalized", h) : h \in { "0xabc", "0xdef" } }
  \cup { RelayerMessage("withdraw", "errored", "insufficient funds"),
         RelayerMessage("withdraw", "connecting", ""),
         RelayerMessage("withdraw", "connected", ""),
         RelayerMessage("error", "none", "relayer unreachable") }

(* A terminal resolution handed to the consumer. *)
Resolution(kind, value) == [ kind |-> kind, value |-> value ]

(* Messages that carry a job outcome. *)
IsOutcome(m) ==
  \/ m.key = "withdraw" /\ m.field \in { "finalized", "errored" }
  \/ m.key = "error"

(* A slip: no state ends the session. *)
NeverTerminal(state) == FALSE

(* Finalized and Errored end the session. *)
IsTerminal(state) == state \in { "Finalized", "Errored" }

(* A slip: a network status that is not known is taken for a failure. *)
ConnectivityOrError(state, text) ==
  IF text = "connecting" THEN "Connecting"
  ELSE IF text = "connected" THEN "Connected"
  ELSE "Errored"

(* The connectivity state a network status leads to. *)
Connectivity(state, text) ==
  IF text = "connecting" THEN "Connecting"
  ELSE IF text = "connected" THEN "Connected"
  ELSE state

(* A slip: a connection-level error is dropped. *)
IgnoreError(m) == m.key = "withdraw" /\ m.field = "errored"

(* Messages that end the job in failure: withdraw.errored, and `error`. *)
IsFailure(m) ==
  \/ m.key = "withdraw" /\ m.field = "errored"
  \/ m.key = "error"

InitRelay ==
  /\ rstate = "Idle"
  /\ rvalue = ""
  /\ resolutions = << >>
  /\ rlog = << >>

(* A relayed submission begins: the session is created. *)
RelaySubmit ==
  /\ rstate = "Idle"
  /\ rstate' = "Connecting"
  /\ UNCHANGED << rvalue, resolutions, rlog >>
  /\ UNCHANGED << fetchVars, txVars, workerVars, transferVars >>

(* One inbound message arrives for the job. *)
RelayReceive ==
  /\ rstate # "Idle"
  /\ Len(rlog) < MaxInbound
  /\ \E m \in RelayerMessages :
       /\ rlog' = Append(rlog, m)
       /\ IF IsTerminal(rstate)
          THEN UNCHANGED << rstate, rvalue, resolutions >>
          ELSE IF m.key = "withdraw" /\ m.field = "finalized"
          THEN /\ rstate' = "Finalized"
               /\ rvalue' = m.text
               /\ resolutions' = Append(resolutions, Resolution("success", m.text))
          ELSE IF IsFailure(m)
          THEN /\ rstate' = "Errored"
               /\ rvalue' = m.text
               /\ resolutions' = Append(resolutions, Resolution("failure", m.text))
          ELSE IF m.key = "network"
          THEN /\ rstate' = Connectivity(rstate, m.text)
               /\ UNCHANGED << rvalue, resolutions >>
          ELSE /\ rstate' = Connectivity(rstate, m.field)
               /\ UNCHANGED << rvalue, resolutions >>
  /\ UNCHANGED << fetchVars, txVars, workerVars, transferVars >>

NextRelay == RelaySubmit \/ RelayReceive

-----------------------------------------------------------------------------
(* transferBalance: one polkadotTx per receiver, awaited in turn *)

Receivers == { "alice", "bob" }

(* One polkadotTx call of the loop: its receiver, how its promise stands    *)
(* ("pending", "resolved", "rejected") and the reason of a rejection.       *)
Transfer(receiver, outcome, reason) ==
  [ to |-> receiver, outcome |-> outcome, reason |-> reason ]

SetOutcome(s, outcome, reason) ==
  [ s EXCEPT ![Len(s)].outcome = outcome, ![Len(s)].reason = reason ]

InitTransfer ==
  /\ bpc = "idle"
  /\ receiverPairs = << >>
  /\ transfers = << >>
  /\ breason = ""

(* polkadotTx(api, { section: 'balances', method: 'transfer' }, [address,   *)
(* amount], source): a new promise is created and the extrinsic is handed   *)
(* to signAndSend.  The subscription of an earlier call acts on that call's *)
(* own promise only and is followed no further.                             *)
polkadotTx(receiver) ==
  /\ txpc' = "submitting"
  /\ promise' = Pending
  /\ callbackRegistered' = FALSE
  /\ submissions' = submissions + 1
  /\ updates' = 0
  /\ inspectedAny' = FALSE
  /\ successSeen' = FALSE
  /\ firstDecisive' = NoEvent
  /\ lastStatus' = "none"
  /\ lastDecisive' = FALSE
  /\ updatesAfterSettle' = 0
  /\ ignoredKinds' = { }

(* The for loop goes on over the receivers `rs` with the calls `settled`    *)
(* behind it: polkadotTx is called for the next receiver and awaited, or    *)
(* the receivers are used up and the function returns.                      *)
Proceed(rs, settled) ==
  IF Len(settled) < Len(rs)
  THEN /\ polkadotTx(rs[Len(settled) + 1])
       /\ transfers' = Append(settled, Transfer(rs[Len(settled) + 1], "pending", ""))
       /\ bpc' = "awaiting"
       /\ UNCHANGED breason
  ELSE /\ transfers' = settled
       /\ bpc' = "returned"
       /\ UNCHANGED breason
       /\ UNCHANGED txVars

(* transferBalance is called with a list of receivers. *)
TransferCall ==
  /\ bpc = "idle"
  /\ \E rs \in SeqsUpTo(Receivers, MaxReceivers) :
       /\ receiverPairs' = rs
       /\ Proceed(rs, << >>)
  /\ UNCHANGED << fetchVars, workerVars, relayVars >>

(* A plausible slip: the rejection is caught and the loop goes on. *)
SkipRejected(reason) ==
  Proceed(receiverPairs, SetOutcome(transfers, "rejected", reason))

(* `await polkadotTx(...)` throws the rejection reason: the loop is left    *)
(* and transferBalance rejects with that reason.                            *)
ThrowRejected(reason) ==
  /\ transfers' = SetOutcome(transfers, "rejected", reason)
  /\ bpc' = "threw"
  /\ breason' = reason
  /\ UNCHANGED txVars

(* The awaited promise has settled and transferBalance resumes. *)
TransferResume ==
  /\ bpc = "awaiting"
  /\ promise.state # "pending"
  /\ IF promise.state = "rejected"
     THEN ThrowRejected(promise.value)
     ELSE Proceed(receiverPairs, SetOutcome(transfers, "resolved", ""))
  /\ UNCHANGED receiverPairs
  /\ UNCHANGED << fetchVars, workerVars, relayVars >>

(* The events a transfer's status updates carry here: what makes the        *)
(* awaited promise resolve, reject with a decoded reason, or stay pending.  *)
TransferEvents ==
  { Event("system", "ExtrinsicSuccess", NoError),
    Event("system", "ExtrinsicFailed", DispatchError("Module", TRUE, FALSE, << 6, 2 >>, "none")),
    Event("system", "ExtrinsicFailed", DispatchError("BadOrigin", FALSE, FALSE, << 0, 0 >>, "none")),
    Event("balances", "Transfer", NoError) }

(* The node delivers a status update of the awaited transfer. *)
TransferStatusUpdate ==
  \E status \in Statuses, events \in SeqsUpTo(TransferEvents, 1) :
    StatusUpdate(status, events)

(* The polkadotTx call that is awaited runs as it does on its own. *)
NextTransfer ==
  TransferCall \/ TxSubscribed \/ TxSendFails \/ TransferStatusUpdate \/ TxStreamEnds
  \/ TransferResume

(* Each specification runs one component and starts the others from a      *)
(* fixed state: an empty tree, no submission, no message posted.            *)
InitSpecFetch ==
  /\ InitFetch(0 .. MaxLeaves)
  /\ InitTx
  /\ InitWorker
  /\ InitRelay
  /\ InitTransfer

SpecFetch == InitSpecFetch /\ [][NextFetch]_vars

(* Trees of at most one page, which may then grow past the page's end. *)
InitSpecFetchGrow ==
  /\ InitFetch(0 .. PageSize)
  /\ InitTx
  /\ InitWorker
  /\ InitRelay
  /\ InitTransfer

SpecFetchGrow == InitSpecFetchGrow /\ [][NextFetchGrow]_vars

InitSpecTx ==
  /\ InitFetch({ 0 })
  /\ InitTx
  /\ InitWorker
  /\ InitRelay
  /\ InitTransfer

SpecTx == InitSpecTx /\ [][NextTx]_vars

InitSpecWorker ==
  /\ InitFetch({ 0 })
  /\ InitTx
  /\ InitWorker
  /\ InitRelay
  /\ InitTransfer

SpecWorker == InitSpecWorker /\ [][NextWorker]_vars

InitSpecRelay ==
  /\ InitFetch({ 0 })
  /\ InitTx
  /\ InitWorker
  /\ InitRelay
  /\ InitTransfer

SpecRelay == InitSpecRelay /\ [][NextRelay]_vars

InitSpecTransfer ==
  /\ InitFetch({ 0 })
  /\ InitTx
  /\ InitWorker
  /\ InitRelay
  /\ InitTransfer

SpecTransfer == InitSpecTransfer /\ [][NextTransfer]_vars

-----------------------------------------------------------------------------
(* Properties of polkadotTx *)

Settled == promise.state \in { "resolved", "rejected" }

(* C2: every call settles its promise, with one outcome: once the status    *)
(* stream of a call has ended, its promise is resolved or rejected.         *)
C2_SettlesExactlyOnce ==
  txpc = "closed" => Settled

(* C3: the promise is resolved with the extrinsic hash exactly when a       *)
(* system ExtrinsicSuccess event has come with an in-block or finalized     *)
(* status.                                                                  *)
C3_ResolvesIffSuccess ==
  (promise = [ state |-> "resolved", value |-> TxHash ]) <=> successSeen

(* The reason the spec gives for each dispatch error. *)
ExpectedReason(err) ==
  CASE err = DispatchError("Module", TRUE, FALSE, << 6, 2 >>, "none") -> "Balances.InsufficientBalance"
    [] err = DispatchError("Token", FALSE, TRUE, << 0, 0 >>, "Frozen") -> "Token.Frozen"
    [] OTHER -> err.type

(* C4: a promise rejected because of an ExtrinsicFailed event carries the   *)
(* decoded dispatch error: "<section>.<name>" for a module error the        *)
(* registry knows, "<type>.<subtype>" for a token error, the raw type tag   *)
(* otherwise.                                                               *)
C4_RejectionReasonDecoded ==
  (promise.state = "rejected" /\ firstDecisive.method = "ExtrinsicFailed") =>
    promise.value = ExpectedReason(firstDecisive.err)

(* A token error has rejected the promise. *)
C4_Witness ==
  /\ promise = [ state |-> "rejected", value |-> "Token.Frozen" ]
  /\ firstDecisive = Event("system", "ExtrinsicFailed",
                           DispatchError("Token", FALSE, TRUE, << 0, 0 >>, "Frozen"))

(* C9: when signAndSend rejects, the promise is rejected with that failure, *)
(* no event has been looked at, no status update has been handled and the  *)
(* extrinsic has been sent once.                                            *)
C9_TransportFailureRejects ==
  txpc = "sendFailed" =>
    /\ promise = [ state |-> "rejected", value |-> TransportError ]
    /\ ~inspectedAny
    /\ updates = 0
    /\ submissions = 1

C9_Witness ==
  /\ txpc = "sendFailed"
  /\ promise.state = "rejected"

(* C10: once the promise has settled the subscription is torn down: the     *)
(* callback is no longer registered and runs for no later status update.    *)
C10_TornDownAfterSettle ==
  /\ Settled => ~callbackRegistered
  /\ updatesAfterSettle = 0

(* C19: when the first system ExtrinsicFailed event that counts carries a   *)
(* module error the registry lookup throws for, the promise is rejected     *)
(* with the error's raw type tag, and with nothing else ever after.         *)
C19_LookupFailureRejectsWithTag ==
  \A err \in DispatchErrors :
    ( /\ err.isModule
      /\ findMetaErrorThrows(err.asModule)
      /\ firstDecisive = Event("system", "ExtrinsicFailed", err) ) =>
        promise = [ state |-> "rejected", value |-> err.type ]

(* The lookup has thrown for a module error and a later update was handled. *)
C19_Witness ==
  /\ firstDecisive = Event("system", "ExtrinsicFailed",
                           DispatchError("Module", TRUE, FALSE, << 99, 0 >>, "none"))
  /\ promise.state = "rejected"
  /\ updatesAfterSettle >= 1

(* C20: a status update settles the promise only if its status is in-block  *)
(* or finalized and it holds an ExtrinsicSuccess or ExtrinsicFailed event   *)
(* of the system module.                                                    *)
C20_OnlyIncludedSystemEventsSettle ==
  [][ (txpc = "subscribed" /\ promise' # promise) =>
        /\ lastStatus' \in { "inBlock", "finalized" }
        /\ lastDecisive'
    ]_vars

(* Success/failure events came with a status that is not in-block or        *)
(* finalized, and from another module in an included update: the promise is *)
(* still pending.                                                           *)
C20_Witness ==
  /\ ignoredKinds = { "status", "module" }
  /\ promise = Pending
  /\ txpc = "subscribed"

(* What the promise settles to when `event` is the first success/failure    *)
(* event the callback's loop reaches.                                       *)
OutcomeOf(event) ==
  IF event.method = "ExtrinsicSuccess"
  THEN [ state |-> "resolved", value |-> TxHash ]
  ELSE [ state |-> "rejected", value |-> ExpectedReason(event.err) ]

(* C21: the outcome is the one of the first system ExtrinsicSuccess or      *)
(* ExtrinsicFailed event processed, in arrival order across updates and in  *)
(* array order within an update, and stays so whatever comes later.         *)
C21_FirstDecisiveEventFixesOutcome ==
  firstDecisive # NoEvent => promise = OutcomeOf(firstDecisive)

(* A success was processed after the failure that rejected the promise. *)
C21_Witness ==
  /\ firstDecisive # NoEvent
  /\ firstDecisive.method = "ExtrinsicFailed"
  /\ successSeen
  /\ promise.state = "rejected"

-----------------------------------------------------------------------------
(* Properties of the proof worker *)

ProofRequests == { id \in 1 .. Len(sent) : FirstKey(sent[id]) = "proof" }

(* Listener invocations that have run to their end. *)
Finished == { id \in 1 .. Len(hpc) : hpc[id] \in { "posted", "threw" } }

(* C5: every "proof" message delivered to a worker that is not destroyed    *)
(* gets exactly one response envelope: never more than one and, once its    *)
(* listener invocation has ended, not zero.                                 *)
C5_ExactlyOneResponse ==
  \A id \in ProofRequests :
    /\ answered[id] <= 1
    /\ (id \in Finished /\ ~terminated) => answered[id] = 1

C7_ExplicitOutcome ==
  /\ \A id \in ProofRequests : id \in Finished => answered[id] >= 1
  /\ txpc = "closed" => Settled
  /\ (fpc \notin { "idle", "awaitPage" }) => fpc \in { "returned", "threw" }

(* C15 as stated: at no time are two proof computations in progress in the  *)
(* worker, whenever the proof messages arrive.                              *)
C15_AtMostOneComputation == Cardinality(Outstanding) <= 1

(* C15: provided the owner posts each proof message only after the response *)
(* to the one before it was posted, at most one proof computation is in     *)
(* progress in the worker.                                                  *)
C15_OneComputationIfSerialised == serialised => Cardinality(Outstanding) <= 1

(* A second proof request is being computed after the first was answered. *)
C15_Witness ==
  /\ serialised
  /\ \E a, b \in ProofRequests :
       /\ a < b
       /\ answered[a] = 1
       /\ hpc[b] = "awaitGenerate"

(* The worker's state as the owner sees it. *)
WorkerState ==
  IF terminated THEN "Terminated"
  ELSE IF Outstanding # { } THEN "AwaitingProof" ELSE "Idle"

(* C16: the worker moves Idle -> AwaitingProof when a "proof" message is    *)
(* handled, AwaitingProof -> Idle only by posting the response, and to      *)
(* Terminated when "destroy" is handled; a response is posted only from     *)
(* AwaitingProof, and nothing is handled or posted once Terminated.         *)
C16_WorkerStateMachine ==
  [][ /\ WorkerState = "Terminated" =>
           /\ WorkerState' = "Terminated"
           /\ outbox' = outbox
           /\ delivered' = delivered
           /\ hpc' \in { hpc, Append(hpc, "queued") }
      /\ outbox' # outbox => WorkerState = "AwaitingProof"
      /\ (WorkerState = "Idle" /\ WorkerState' = "AwaitingProof") =>
           /\ delivered' = delivered + 1
           /\ FirstKey(sent[delivered']) = "proof"
      /\ (WorkerState = "AwaitingProof" /\ WorkerState' = "Idle") =>
           Len(outbox') = Len(outbox) + 1
      /\ (delivered' # delivered /\ FirstKey(sent[delivered']) = "destroy") =>
           WorkerState' = "Terminated"
      /\ (WorkerState # "Terminated" /\ WorkerState' = "Terminated") =>
           /\ delivered' = delivered + 1
           /\ FirstKey(sent[delivered']) = "destroy"
    ]_vars

(* C24: the listener acts on the first key of a message alone: handling a   *)
(* message whose first key is neither "proof" nor "destroy" posts nothing,  *)
(* does not terminate the worker and leaves its state as it was; a message  *)
(* of several keys is handled as a message of its first key.                *)
C24_DispatchOnFirstKeyOnly ==
  [][ delivered' = delivered + 1 =>
        LET keys == sent[delivered'].keys
            first == IF keys = << >> THEN "undefined" ELSE Head(keys)
        IN  /\ outbox' = outbox
            /\ answered' = answered
            /\ first = "proof" =>
                 /\ ~terminated'
                 /\ Outstanding' = Outstanding \cup { delivered' }
            /\ first = "destroy" =>
                 /\ terminated'
                 /\ Outstanding' = Outstanding
            /\ first \notin { "proof", "destroy" } =>
                 /\ ~terminated'
                 /\ Outstanding' = Outstanding
                 /\ WorkerState' = WorkerState
    ]_vars

(* A message of keys "proof" and "destroy" was answered as a proof request  *)
(* and did not terminate the worker, and a message of another key was       *)
(* ignored.                                                                 *)
C24_Witness ==
  /\ ~terminated
  /\ \E a, b \in 1 .. Len(sent) :
       /\ sent[a].keys = << "proof", "destroy" >>
       /\ answered[a] = 1
       /\ sent[b].keys = << "ping" >>
       /\ hpc[b] = "ignored"
       /\ answered[b] = 0

-----------------------------------------------------------------------------
(* Properties of the relayed submission *)

OutcomeIndexes == { k \in 1 .. Len(rlog) : IsOutcome(rlog[k]) }

(* The first inbound message that carries a job outcome. *)
FirstOutcome == rlog[CHOOSE k \in OutcomeIndexes : \A j \in OutcomeIndexes : k <= j]

(* The last inbound message that carries a job outcome. *)
LastOutcome == rlog[CHOOSE k \in OutcomeIndexes : \A j \in OutcomeIndexes : j <= k]

(* What the consumer is told for an outcome message. *)
ResolutionOf(m) ==
  IF m.key = "withdraw" /\ m.field = "finalized"
  THEN Resolution("success", m.text)
  ELSE Resolution("failure", m.text)

(* C11: the consumer gets exactly one terminal resolution per job: success  *)
(* with the txHash once withdraw.finalized has arrived, failure with the    *)
(* reason once withdraw.errored has; Finalized and Errored are terminal:    *)
(* whatever arrives afterwards changes neither the state nor the            *)
(* resolution.                                                              *)
C11_OneTerminalResolution ==
  /\ Len(resolutions) <= 1
  /\ (OutcomeIndexes # { } /\ FirstOutcome.key = "withdraw") =>
        /\ resolutions = << ResolutionOf(FirstOutcome) >>
        /\ rstate = (IF FirstOutcome.field = "finalized" THEN "Finalized" ELSE "Errored")
        /\ rvalue = FirstOutcome.text

(* The spec's sequence: connecting, connected, withdraw.finalized("0xabc"). *)
C11_Witness ==
  /\ rlog = << RelayerMessage("network", "none", "connecting"),
               RelayerMessage("network", "none", "connected"),
               RelayerMessage("withdraw", "finalized", "0xabc") >>
  /\ rstate = "Finalized"
  /\ resolutions = << Resolution("success", "0xabc") >>

(* C12: network messages alone move the session between Connecting and      *)
(* Connected only, and deliver nothing to the consumer.                     *)
C12_NetworkIsConnectivityOnly ==
  (\A k \in 1 .. Len(rlog) : rlog[k].key = "network") =>
     /\ rstate \in { "Idle", "Connecting", "Connected" }
     /\ resolutions = << >>

C12_Witness ==
  /\ Len(rlog) = MaxInbound
  /\ \A k \in 1 .. Len(rlog) : rlog[k].key = "network"
  /\ rlog[Len(rlog)].text = "unknown"
  /\ rstate = "Connected"

-----------------------------------------------------------------------------
(* Properties of fetchRPCTreeLeaves *)

CeilDiv(a, b) == (a + b - 1) \div b

(* The leaves of indices 0 .. n-1, in index order. *)
TreeLeaves(n) == [ k \in 1 .. n |-> LeafAt(k - 1) ]

LastOf(s) == s[Len(s)]

(* C1: from a tree of N leaves that does not change, a call that returns    *)
(* returns exactly the N leaves in index order, after ceil(N/511) requests  *)
(* answered with a non-empty page followed by exactly one answered with an  *)
(* empty page.                                                              *)
C1_FetchReturnsAllLeaves ==
  fpc = "returned" =>
    /\ result = TreeLeaves(treeLen)
    /\ Len(requests) = CeilDiv(treeLen, PageSize) + 1
    /\ \A k \in 1 .. Len(requests) : requests[k].state = "answered"
    /\ \A k \in 1 .. Len(requests) - 1 : requests[k].got \in 1 .. PageSize
    /\ LastOf(requests).got = 0

(* The spec's concrete case: pages of 511, 200 and 0 leaves, 711 in all. *)
C1_Witness ==
  /\ fpc = "returned"
  /\ treeLen = 711
  /\ Len(result) = 711
  /\ requests = << Request(0, 511, "answered", 511),
                   Request(511, 1022, "answered", 200),
                   Request(1022, 1533, "answered", 0) >>

(* C8: a failed page request ends the call at once: it is the last request  *)
(* of its call (nothing is asked after it, it is not asked again), the call *)
(* returns no leaves, and the call after it starts again with [0, 511) and  *)
(* an empty accumulator.                                                    *)
C8_FailurePropagates ==
  /\ \A k \in 1 .. Len(requests) : requests[k].state = "failed" => k = Len(requests)
  /\ fpc = "threw" => /\ result = NoResult
                      /\ LastOf(requests).state = "failed"
  /\ (prevRequests # << >> /\ LastOf(prevRequests).state = "failed") =>
        /\ prevResult = NoResult
        /\ requests[1].from = 0
        /\ requests[1].to = PageSize
        /\ Len(requests) = 1 => leaves = << >>
        /\ fpc = "returned" => result = TreeLeaves(treeLen)

(* A call fails at its second page, with 511 leaves collected, and the call *)
(* after it has run to its end.                                             *)
C8_Witness ==
  /\ calls = 2
  /\ Len(prevRequests) = 2
  /\ LastOf(prevRequests).state = "failed"
  /\ fpc = "returned"
  /\ Len(result) > PageSize

(* C14: two calls in sequence on a tree that does not change return the     *)
(* same leaves after the same page requests, each call starting at index 0. *)
C14_RefetchIdentical ==
  ( /\ calls >= 2
    /\ fpc = "returned"
    /\ LastOf(prevRequests).state = "answered"
    /\ treeLen = callTreeLen
    /\ callTreeLen = prevTreeLen ) =>
      /\ result = prevResult
      /\ requests = prevRequests
      /\ requests[1].from = 0
      /\ prevRequests[1].from = 0

(* Two calls have returned from a tree of more than two pages. *)
C14_Witness ==
  /\ calls = 2
  /\ fpc = "returned"
  /\ LastOf(prevRequests).state = "answered"
  /\ Len(prevResult) = 1030
  /\ Len(requests) = 4

(* C17: the k-th request (k = 0, 1, ...) of a call is for                   *)
(* [511*k, 511*(k+1)); every request but the last has been answered, so a   *)
(* request is issued only after the one before it was answered and at most  *)
(* one is outstanding.                                                      *)
C17_SequentialWindows ==
  /\ \A k \in 1 .. Len(requests) :
       /\ requests[k].from = 511 * (k - 1)
       /\ requests[k].to = 511 * k
  /\ \A k \in 1 .. Len(requests) - 1 : requests[k].state = "answered"
  /\ Cardinality({ k \in 1 .. Len(requests) : requests[k].state = "pending" }) <= 1
  /\ fpc = "awaitPage" <=> (requests # << >> /\ LastOf(requests).state = "pending")

(* The third request of a call is outstanding. *)
C17_Witness ==
  /\ fpc = "awaitPage"
  /\ Len(requests) = 3
  /\ LastOf(requests) = Request(1022, 1533, "pending", 0)

RECURSIVE SumGot(_)
SumGot(s) == IF s = << >> THEN 0 ELSE Head(s).got + SumGot(Tail(s))

(* C18: the loop stops at the first empty page and only there: an empty     *)
(* page is the last request of its call and ends it, every non-empty page,  *)
(* short or full, is followed by another request, and the leaves collected  *)
(* are those of the non-empty pages.                                        *)
C18_StopsAtFirstEmptyPage ==
  /\ \A k \in 1 .. Len(requests) :
       requests[k].state = "answered" =>
         IF requests[k].got = 0
         THEN k = Len(requests) /\ fpc = "returned"
         ELSE k < Len(requests)
  /\ Len(leaves) = SumGot(requests)
  /\ fpc = "returned" => /\ LastOf(requests).state = "answered"
                         /\ LastOf(requests).got = 0
                         /\ result = leaves

(* A page of 200 leaves has been followed by another request. *)
C18_Witness ==
  /\ Len(requests) = 2
  /\ requests[1] = Request(0, 511, "answered", 200)
  /\ requests[2].state = "pending"

(* C22: a call that returns while leaves are appended to the tree returns   *)
(* a gap-free sequence: the leaf of every index from 0 up to the last index *)
(* returned, each once and in index order.                                  *)
C22_GapFreeUnderAppends ==
  fpc = "returned" => result = TreeLeaves(Len(result))

-----------------------------------------------------------------------------
(* Properties of transferBalance *)

(* C23: the transfers are submitted one at a time in the order of           *)
(* receiverPairs, each after the one before it resolved; when one is        *)
(* rejected transferBalance rejects with its reason, and nothing is         *)
(* submitted to a later receiver.                                           *)
C23_TransfersInOrder ==
  /\ Len(transfers) <= Len(receiverPairs)
  /\ submissions = Len(transfers)
  /\ \A k \in 1 .. Len(transfers) : transfers[k].to = receiverPairs[k]
  /\ \A k \in 1 .. Len(transfers) - 1 : transfers[k].outcome = "resolved"
  /\ bpc = "awaiting" <=> (transfers # << >> /\ LastOf(transfers).outcome = "pending")
  /\ bpc = "threw" <=> (transfers # << >> /\ LastOf(transfers).outcome = "rejected")
  /\ bpc = "threw" => /\ breason = LastOf(transfers).reason
                      /\ promise = [ state |-> "rejected", value |-> breason ]
  /\ bpc = "returned" => /\ Len(transfers) = Len(receiverPairs)
                         /\ \A k \in 1 .. Len(transfers) : transfers[k].outcome = "resolved"

(* The first of two transfers was rejected with a decoded dispatch error:   *)
(* transferBalance rejected with it and the second was never submitted.     *)
C23_Witness ==
  /\ bpc = "threw"
  /\ receiverPairs = << "bob", "alice" >>
  /\ transfers = << Transfer("bob", "rejected", "Balances.InsufficientBalance") >>
  /\ breason = "Balances.InsufficientBalance"
  /\ submissions = 1

====
